---- MODULE Spec2Model ----
(***************************************************************************)
(* Model of new_worm/scheduler.c: a cooperative round-robin task scheduler *)
(* built on ucontext.  The state is the task table (tasks, num_tasks,      *)
(* current_task), the two external services the scheduler polls (the      *)
(* millisecond clock read by time_ms and the keyboard read by getch), and  *)
(* the position of the flow of control: in application code, or inside the *)
(* scan loop of schedule.                                                  *)
(*                                                                         *)
(* There is one flow of control at a time.  Application code is left open: *)
(* whenever control is in application code the flow may call task_create   *)
(* or any blocking primitive with any argument, and the function of the    *)
(* task recorded as current may return, which enters task_exit through the *)
(* exit_context that task_create links behind it (lines 138 and 149).      *)
(* schedule ends at lines 85-89, where it returns to its caller or calls   *)
(* swapcontext; swapcontext stores the caller's point in the local copy    *)
(* current_task_info made at line 52, which nothing reads afterwards.      *)
(***************************************************************************)
EXTENDS Integers, Naturals, Sequences, FiniteSets, TLC

\* ---- program constants (scheduler.c:13-21) and curses' ERR ----
is_running == 1
blocked_on_input == 2
blocked_on_sleep == 3
blocked_on_join == 4
exited == 5
ready == 6
MAX_TASKS == 128
ERR == -1

\* ---- bounds of the model ----
\* at most MaxCreate task_create calls in Spec
MaxCreate == 2
\* the clock runs over 0..MaxTime
MaxTime == 1
\* at most MaxKeys keys are typed in a run
MaxKeys == 1
\* the number of tasks main creates in scenario 1
ScenarioTasks == 3

\* sleep durations the application passes, and the handles it passes to
\* task_wait: every handle task_create can have issued and one it cannot
Durations == 0..MaxTime
Handles == 1..(MaxCreate + 1)

VARIABLES
  tasks,         \* the claimed slots 0..num_tasks-1 of tasks[MAX_TASKS]: status,
                 \* wake_time, join_thread, input.  The slots above them hold the
                 \* zero bytes of static storage; no function reads or writes them
  current_task,  \* handle of the task recorded as executing
  num_tasks,     \* number of slots claimed so far
  clock,         \* value time_ms() returns
  keys,          \* typed keys not yet consumed by getch()
  typed,         \* number of keys typed so far
  pc,            \* "start" | "app" | "sched" | "crashed"
  call,          \* primitive in progress, or the last one that returned
  t,             \* schedule's parameter t
  index,         \* schedule's local index
  got,           \* what getch() returned at the selection of this schedule call
  ret,           \* value returned by the last task_readchar, NoRet otherwise
  handles,       \* the values written through task_create's handle parameter
  deadline,      \* per task: clock value s at its task_sleep call plus ms
  via,           \* the status the selected task had when schedule selected it
  ctx,           \* the ucontext the CPU executes on: 0 = main's, i = tasks[i].context
  entered,       \* tasks whose function has been entered
  waited         \* per task: selections schedule has made while the task was ready

vars == <<tasks, current_task, num_tasks, clock, keys, typed, pc, call, t, index,
          got, ret, handles, deadline, via, ctx, entered, waited>>

NoRet == -2
NoTime == -1
Slots == 0..(MAX_TASKS - 1)

\* a zero-initialised task_info_t (static storage, scheduler.c:49); the field
\* context holds the point at which the saved ucontext would resume: "zero"
\* (never written), "entry" (made by makecontext, line 151) or "yield" (saved by
\* a swapcontext inside schedule)
ZeroTask ==
  [status |-> 0, wake_time |-> 0, join_thread |-> 0, input |-> 0, context |-> "zero"]

Init ==
  /\ tasks = [i \in {0} |-> ZeroTask]
  /\ current_task = 0
  /\ num_tasks = 1
  /\ clock = 0
  /\ keys = <<>>
  /\ typed = 0
  /\ pc = "start"
  /\ call = "none"
  /\ t = 0
  /\ index = 0
  /\ got = ERR
  /\ ret = NoRet
  /\ handles = <<>>
  /\ deadline = [i \in {0} |-> NoTime]
  /\ via = 0
  /\ ctx = 0
  /\ entered = {}
  /\ waited = [i \in {0} |-> 0]

\* the allocated part of the table
Allocated == 0..(num_tasks - 1)

\* ---- external services ----

\* time passes (the monotonic clock behind time_ms)
Tick ==
  /\ pc # "crashed"
  /\ clock < MaxTime
  /\ clock' = clock + 1
  /\ UNCHANGED <<tasks, current_task, num_tasks, keys, typed, pc, call, t, index,
                 got, ret, handles, deadline, via, ctx, entered, waited>>

\* the user types a key; the k-th key of a run carries code k, so that every
\* input event is told from every other
KeyPress ==
  /\ pc # "crashed"
  /\ typed < MaxKeys
  /\ keys' = Append(keys, typed + 1)
  /\ typed' = typed + 1
  /\ UNCHANGED <<tasks, current_task, num_tasks, clock, pc, call, t, index,
                 got, ret, handles, deadline, via, ctx, entered, waited>>

\* getch() in non-blocking mode: the oldest pending key, or ERR
getch == IF keys = <<>> THEN ERR ELSE Head(keys)

\* sleep_ms(1): the clock has advanced by the time the call returns
sleep_ms(now) == IF now < MaxTime THEN now + 1 ELSE now

\* ---- schedule (scheduler.c:51-90) ----

\* variant: the ring is walked backwards
RingPrev(i) == (i + num_tasks - 1) % num_tasks

\* variant: the scan moves two slots at a time
RingSkip(i) == (i + 2) % num_tasks

\* line 53 and line 81: the ring successor of slot i
RingNext(i) == (i + 1) % num_tasks

\* variant: the comparison of line 60 turned round
SleepOverFlipped(now, wake) == now <= wake

\* line 60: a sleeper is due
SleepOver(now, wake) == now >= wake

\* line 66: a joiner is released when the yielding caller is its join target
JoinMatches(caller, target) == caller = target

\* variant: an exited slot is taken for a runnable one
EligibleExited(i, res) ==
  CASE tasks[i].status \in {ready, exited} -> TRUE
    [] tasks[i].status = blocked_on_sleep -> SleepOver(clock, tasks[i].wake_time)
    [] tasks[i].status = blocked_on_join -> JoinMatches(t, tasks[i].join_thread)
    [] tasks[i].status = blocked_on_input -> res # ERR
    [] OTHER -> FALSE

\* lines 55-79: does the loop body break on slot i, res being what getch()
\* returned for a slot that is blocked on input
Eligible(i, res) ==
  CASE tasks[i].status = ready -> TRUE
    [] tasks[i].status = blocked_on_sleep -> SleepOver(clock, tasks[i].wake_time)
    [] tasks[i].status = blocked_on_join -> JoinMatches(t, tasks[i].join_thread)
    [] tasks[i].status = blocked_on_input -> res # ERR
    [] OTHER -> FALSE

\* variant: the join branch forgets line 67
SelectedJoinUnmarked(i, res) ==
  CASE tasks[i].status = blocked_on_input ->
         [tasks EXCEPT ![i].status = is_running, ![i].input = res]
    [] tasks[i].status = blocked_on_join -> tasks
    [] OTHER -> [tasks EXCEPT ![i].status = is_running]

\* variant: selecting another slot puts the caller back to ready
SelectedRequeue(i, res) ==
  IF tasks[i].status = blocked_on_input
    THEN [tasks EXCEPT ![i].status = is_running, ![i].input = res]
    ELSE IF i = t THEN [tasks EXCEPT ![i].status = is_running]
                  ELSE [tasks EXCEPT ![i].status = is_running, ![t].status = ready]

\* lines 56, 61, 67, 74-76: the table after slot i is selected
Selected(i, res) ==
  IF tasks[i].status = blocked_on_input
    THEN [tasks EXCEPT ![i].status = is_running, ![i].input = res]
    ELSE [tasks EXCEPT ![i].status = is_running]

\* line 85: schedule returns to its caller without a context switch
NoSwitch(i, cur) == i = cur

\* lines 52-53: schedule(caller) is entered
schedule_enter(caller) ==
  /\ t' = caller
  /\ index' = RingNext(caller)
  /\ pc' = "sched"
  /\ got' = ERR
  /\ ret' = NoRet
  /\ via' = 0

\* one iteration of the loop that breaks: slot index is selected, then lines
\* 85-89 either return to the caller or swapcontext into tasks[index].context
schedule_select ==
  /\ pc = "sched"
  /\ LET polled == tasks[index].status = blocked_on_input
         res == IF polled THEN getch ELSE ERR
     IN /\ Eligible(index, res)
        /\ tasks' = Selected(index, res)
        /\ current_task' = index
        /\ keys' = IF polled THEN Tail(keys) ELSE keys
        /\ got' = res
        /\ via' = tasks[index].status
        /\ IF NoSwitch(index, current_task')
             THEN \* return; task_readchar then returns tasks[current_task].input
                  /\ pc' = "app"
                  /\ ret' = IF call = "readchar"
                              THEN tasks'[current_task'].input ELSE NoRet
                  /\ UNCHANGED <<ctx, entered>>
             ELSE \* swapcontext: the caller's point is saved in the local copy
                  \* current_task_info; tasks[index].context is the one made by
                  \* makecontext (entry of fn), or for slot 0 never initialised
                  /\ pc' = IF index = 0 THEN "crashed" ELSE "app"
                  /\ ret' = NoRet
                  /\ ctx' = index
                  /\ entered' = IF index = 0 THEN entered ELSE entered \cup {index}
  /\ waited' = [i \in DOMAIN waited |->
                  IF i # index /\ i \in DOMAIN tasks /\ tasks[i].status = ready
                    THEN waited[i] + 1 ELSE 0]
  /\ index' = 0
  /\ t' = 0
  /\ UNCHANGED <<num_tasks, clock, typed, call, handles, deadline>>

\* variant: the loop gives up after a full pass and returns without a selection
schedule_skip_bailout ==
  /\ pc = "sched"
  /\ LET res == IF tasks[index].status = blocked_on_input THEN getch ELSE ERR
     IN ~Eligible(index, res)
  /\ index' = IF index = t THEN 0 ELSE RingNext(index)
  /\ pc' = IF index = t THEN "app" ELSE "sched"
  /\ t' = IF index = t THEN 0 ELSE t
  /\ clock' = sleep_ms(clock)
  /\ UNCHANGED <<tasks, current_task, num_tasks, keys, typed, call,
                 got, ret, handles, deadline, via, ctx, entered, waited>>

\* one iteration that does not break: lines 81-82
schedule_skip ==
  /\ pc = "sched"
  /\ LET res == IF tasks[index].status = blocked_on_input THEN getch ELSE ERR
     IN ~Eligible(index, res)
  /\ index' = RingNext(index)
  /\ clock' = sleep_ms(clock)
  /\ UNCHANGED <<tasks, current_task, num_tasks, keys, typed, pc, call, t,
                 got, ret, handles, deadline, via, ctx, entered, waited>>

\* ---- the interface (scheduler.c:96-205) ----

\* variant: scheduler_init leaves the main task's status unset
scheduler_init_unset ==
  /\ pc = "start"
  /\ pc' = "app"
  /\ call' = "init"
  /\ UNCHANGED <<tasks, current_task, num_tasks, clock, keys, typed, t, index, got,
                 ret, handles, deadline, via, ctx, entered, waited>>

scheduler_init ==
  /\ pc = "start"
  /\ tasks' = [tasks EXCEPT ![0].status = is_running]
  /\ pc' = "app"
  /\ call' = "init"
  /\ UNCHANGED <<current_task, num_tasks, clock, keys, typed, t, index, got, ret,
                 handles, deadline, via, ctx, entered, waited>>

\* variant: the slot of an exited task is recycled
NewIndexRecycled ==
  IF \E i \in Allocated : tasks[i].status = exited
    THEN CHOOSE i \in Allocated : tasks[i].status = exited
    ELSE num_tasks

\* variant: off by one, the last claimed slot is taken again
NewIndexLast == num_tasks - 1

\* line 120: the slot a new task claims
NewIndex == num_tasks

\* lines 118-155.  A slot past the end of tasks[] is a write outside the array:
\* the build may run on with the table untouched or stop
create ==
  /\ pc = "app"
  /\ LET slot == NewIndex
     IN /\ num_tasks' = num_tasks + 1
        /\ handles' = Append(handles, slot)
        /\ IF slot \in Slots
             THEN /\ tasks' = IF slot \in DOMAIN tasks
                                THEN [tasks EXCEPT ![slot].status = ready,
                                                   ![slot].context = "entry"]
                                ELSE tasks @@ (slot :> [ZeroTask EXCEPT
                                                          !.status = ready,
                                                          !.context = "entry"])
                  /\ deadline' = IF slot \in DOMAIN deadline
                                   THEN deadline ELSE deadline @@ (slot :> NoTime)
                  /\ pc' = "app"
             ELSE /\ tasks' = tasks
                  /\ deadline' = deadline
                  /\ pc' \in {"app", "crashed"}
  /\ call' = "create"
  /\ ret' = NoRet
  /\ waited' = IF NewIndex \in DOMAIN waited THEN waited ELSE waited @@ (NewIndex :> 0)
  /\ UNCHANGED <<current_task, clock, keys, typed, t, index, got, via, ctx, entered>>

\* task_create as the application uses it in Spec
task_create ==
  /\ num_tasks <= MaxCreate
  /\ create

\* lines 106-110: the function of the task recorded as current has returned
task_exit ==
  /\ pc = "app"
  /\ current_task # 0
  /\ tasks' = [tasks EXCEPT ![current_task].status = exited]
  /\ call' = "exit"
  /\ schedule_enter(current_task)
  /\ UNCHANGED <<current_task, num_tasks, clock, keys, typed, handles, deadline,
                 ctx, entered, waited>>

\* lines 165-170
task_wait(handle) ==
  /\ pc = "app"
  /\ tasks' = [tasks EXCEPT ![current_task].status = blocked_on_join,
                            ![current_task].join_thread = handle]
  /\ call' = "wait"
  /\ schedule_enter(current_task)
  /\ UNCHANGED <<current_task, num_tasks, clock, keys, typed, handles, deadline,
                 ctx, entered, waited>>

\* variant: the duration is left out of line 186
WakeTimeNoMs(now, ms) == now

\* line 186: the wake-up time recorded for a sleep of ms started at now (a
\* size_t sum; the clock values and durations used here stay far below its
\* wrap-around)
WakeTime(now, ms) == now + ms

\* lines 181-188
task_sleep(ms) ==
  /\ pc = "app"
  /\ clock + ms <= MaxTime
  /\ tasks' = [tasks EXCEPT ![current_task].status = blocked_on_sleep,
                            ![current_task].wake_time = WakeTime(clock, ms)]
  /\ deadline' = [deadline EXCEPT ![current_task] = clock + ms]
  /\ call' = "sleep"
  /\ schedule_enter(current_task)
  /\ UNCHANGED <<current_task, num_tasks, clock, keys, typed, handles, ctx, entered,
                 waited>>

\* lines 197-205 up to the call of schedule; the return statement of line 204
\* is taken in schedule_select
task_readchar ==
  /\ pc = "app"
  /\ tasks' = [tasks EXCEPT ![current_task].status = blocked_on_input]
  /\ call' = "readchar"
  /\ schedule_enter(current_task)
  /\ UNCHANGED <<current_task, num_tasks, clock, keys, typed, handles, deadline,
                 ctx, entered, waited>>

Yield ==
  \/ \E ms \in Durations : task_sleep(ms)
  \/ \E h \in Handles : task_wait(h)
  \/ task_readchar
  \/ task_exit

Next ==
  \/ scheduler_init
  \/ task_create
  \/ \E ms \in Durations : task_sleep(ms)
  \/ \E h \in Handles : task_wait(h)
  \/ task_readchar
  \/ task_exit
  \/ schedule_select
  \/ schedule_skip
  \/ Tick
  \/ KeyPress

Spec == Init /\ [][Next]_vars

\* The scan loop of schedule keeps iterating, the running task keeps reaching a
\* blocking primitive or the end of its function, and the clock keeps advancing.
LiveSpec ==
  /\ Spec
  /\ WF_vars(schedule_select)
  /\ WF_vars(schedule_skip)
  /\ WF_vars(Yield)
  /\ WF_vars(Tick)

\* task_create called over and over, up to the first call made on a full table
task_create_full ==
  /\ num_tasks <= MAX_TASKS
  /\ create

SpecCap == Init /\ [][scheduler_init \/ task_create_full]_vars

\* Scenario 1: main creates ScenarioTasks tasks and then keeps yielding, by
\* task_sleep(0) or by waiting for one of them; the function of every created
\* task calls task_sleep(0) once and returns.  The code that runs is the code
\* of the context the processor executes on: main's while ctx = 0, the
\* function of task ctx otherwise.
scenario_step ==
  IF ctx = 0
    THEN IF num_tasks <= ScenarioTasks
           THEN create
           ELSE \/ task_sleep(0)
                \/ \E h \in 1..ScenarioTasks : task_wait(h)
    ELSE IF deadline[ctx] = NoTime
           THEN task_sleep(0)
           ELSE task_exit

Scenario1 ==
  Init /\ [][\/ scheduler_init
             \/ scenario_step
             \/ schedule_select
             \/ schedule_skip
             \/ Tick]_vars

\* ---- properties ----

\* the status of slot i; an unclaimed slot holds zero
StatusOf(i) == IF i \in DOMAIN tasks THEN tasks[i].status ELSE 0

Running == {i \in Allocated : tasks[i].status = is_running}
Yields == {"sleep", "wait", "readchar", "exit"}

\* C1 as stated: in every state after scheduler_init, the states in which
\* schedule is still scanning included, exactly one allocated task is is_running.
OneRunningAlways == pc # "start" => Cardinality(Running) = 1

\* C1 amended: whenever control is outside schedule after scheduler_init exactly
\* one allocated task is is_running; while schedule scans the ring, after the
\* caller marked itself blocked or exited, none is.
OneRunningOutsideSchedule ==
  /\ pc = "app" => Cardinality(Running) = 1
  /\ pc = "sched" => Running = {}

\* a yield has completed and handed the processor to another task
OneRunningWitness ==
  /\ pc = "app"
  /\ call \in Yields
  /\ via = blocked_on_join
  /\ Running = {current_task}

\* C2: a task blocked in task_wait(B) leaves blocked_on_join for is_running only
\* when B is exited (B another task than the waiter).
JoinOrdering ==
  [][\A a \in Allocated :
       (/\ tasks[a].status = blocked_on_join
        /\ tasks'[a].status = is_running
        /\ tasks[a].join_thread \in Allocated \ {a})
       => tasks'[tasks[a].join_thread].status = exited]_vars

SleepLiveness ==
  \A i \in 0..MaxCreate :
    (StatusOf(i) = blocked_on_sleep /\ clock >= tasks[i].wake_time)
      ~> (StatusOf(i) = is_running)

\* a task that went to sleep earlier is selected by the yield of another task
SleepLivenessWitness ==
  /\ pc = "app"
  /\ via = blocked_on_sleep
  /\ call \in {"wait", "readchar", "exit"}
  /\ clock >= deadline[current_task]

\* C5: task_readchar returns the character getch() delivered at the selection
\* that ended the call, and a character getch() delivered is returned by the
\* task_readchar call that was waiting for it.
InputRoundTrip ==
  /\ (pc = "app" /\ call = "readchar") => (got # ERR /\ ret = got)
  /\ (pc = "app" /\ call \in Yields /\ got # ERR) => (call = "readchar" /\ ret = got)

\* C6: once B has exited while A is blocked in task_wait(B), A is eventually
\* selected.
JoinLiveness ==
  \A a \in 0..MaxCreate :
    (/\ pc = "sched" /\ call = "exit"
     /\ StatusOf(a) = blocked_on_join
     /\ tasks[a].join_thread = t)
      ~> (StatusOf(a) = is_running)

\* C7: num_tasks stays within MAX_TASKS and no handle is issued on a full table.
CapacityRespected ==
  /\ num_tasks <= MAX_TASKS
  /\ Len(handles) <= MAX_TASKS - 1

\* C8: every task that is blocked_on_join names an existing slot.
JoinTargetExists ==
  \A i \in Allocated :
    tasks[i].status = blocked_on_join => tasks[i].join_thread \in Allocated

\* C9: exited is entered only by task_exit acting on the running task, and is
\* never left; an exited task never becomes current_task again.
ExitedAbsorbing ==
  [][\A i \in Allocated :
       /\ tasks[i].status = exited =>
            /\ tasks'[i].status = exited
            /\ (current_task' = i => current_task = i)
       /\ (tasks[i].status # exited /\ tasks'[i].status = exited) =>
            /\ i = current_task
            /\ tasks[i].status = is_running
            /\ call' = "exit"]_vars

\* the scan of a later yield examines the slot of a task that exited earlier
ExitedAbsorbingWitness ==
  /\ pc = "sched"
  /\ call \in {"sleep", "wait", "readchar"}
  /\ tasks[index].status = exited

\* C10: the k-th task_create writes handle k (so handles increase strictly, never
\* repeat and are never 0), and num_tasks never decreases.
HandlesSequential ==
  /\ [](\A k \in 1..Len(handles) : handles[k] = k)
  /\ [][num_tasks' >= num_tasks]_vars

\* a task is created after an earlier one has exited
HandlesSequentialWitness ==
  /\ Len(handles) = 2
  /\ tasks[1].status = exited
  /\ call = "create"


\* C11: a task_create call leaves the new task ready with none of its function
\* executed, and leaves current_task, the executing context and the record of
\* every task that existed before unchanged.
CreateFrame ==
  [][Len(handles') > Len(handles) =>
       LET h == handles'[Len(handles')]
       IN /\ h \in DOMAIN tasks'
          /\ tasks'[h].status = ready
          /\ h \notin entered'
          /\ current_task' = current_task
          /\ ctx' = ctx
          /\ pc' = "app"
          /\ \A i \in DOMAIN tasks : tasks'[i] = tasks[i]]_vars

\* task 1 has just created task 2 while task 0 is asleep
CreateFrameWitness ==
  /\ pc = "app"
  /\ call = "create"
  /\ Len(handles) = 2
  /\ current_task = 1
  /\ tasks[0].status = blocked_on_sleep
  /\ tasks[2].status = ready


\* C12: in scenario 1 every created task that schedule has selected is running
\* or has run its function, and the created tasks are first selected in
\* creation order.
ScenarioOneRuns ==
  /\ \A i \in 1..ScenarioTasks :
       StatusOf(i) \notin {0, ready} => i \in entered
  /\ \A i \in 1..(ScenarioTasks - 1) :
       StatusOf(i + 1) \notin {0, ready} => StatusOf(i) \notin {0, ready}


\* the condition of the slot under examination, read off the state: ready; a
\* due sleeper; a joiner whose target is the caller; input-blocked with a key
\* pending
ExaminedHolds ==
  \/ tasks[index].status = ready
  \/ tasks[index].status = blocked_on_sleep /\ clock >= tasks[index].wake_time
  \/ tasks[index].status = blocked_on_join /\ tasks[index].join_thread = t
  \/ tasks[index].status = blocked_on_input /\ keys # <<>>

\* C13: the scan starts at (t + 1) mod num_tasks, moves one slot forward at a
\* time and only past a slot whose condition does not hold when it is examined,
\* and ends by selecting the examined slot, whose condition holds; an exited or
\* is_running slot is never selected.
RingSelection ==
  [][/\ (pc = "app" /\ pc' = "sched") =>
          (t' = current_task /\ index' = (current_task + 1) % num_tasks)
     /\ (pc = "sched" /\ pc' # "sched") =>
          /\ ExaminedHolds
          /\ tasks[index].status \notin {exited, is_running}
          /\ current_task' = index
          /\ tasks'[index].status = is_running
     /\ (pc = "sched" /\ pc' = "sched" /\ index' # index) =>
          (~ExaminedHolds /\ index' = (index + 1) % num_tasks)]_vars

\* the scan has gone round the ring and examines the caller's own slot
RingSelectionWitness ==
  /\ pc = "sched"
  /\ num_tasks = MaxCreate + 1
  /\ index = t
  /\ ExaminedHolds


\* C14: when schedule(t) leaves its loop, the executing context changes
\* (swapcontext into the selected task) if and only if the selected index
\* differs from t.
SwitchIffOther ==
  [][(pc = "sched" /\ pc' # "sched") =>
       ((ctx' # ctx) <=> (current_task' # t))]_vars


\* C15: a task that schedule has switched away from has its execution point
\* saved in tasks[t].context, and the task schedule selected is the one that
\* executes: at its entry point if it was never selected before, after its own
\* yield otherwise.
ResumePointSaved ==
  pc = "app" =>
    /\ ctx = current_task
    /\ \A i \in DOMAIN tasks :
         (i # current_task /\
          tasks[i].status \in {blocked_on_sleep, blocked_on_join, blocked_on_input})
           => tasks[i].context = "yield"


\* slots examined by schedule(a) up to and including slot b: the ring distance
\* from a to b, a full turn when b is a itself
RingDistance(a, b) == IF a = b THEN num_tasks ELSE (b - a + num_tasks) % num_tasks

\* C16: a ready task is selected after at most num_tasks - 1 further
\* selections, no selection passes over a ready task (every ready task lies
\* further round the ring from the caller than the selected one), and each
\* schedule call starts from the task selected last.
ReadyNotPassedOver ==
  /\ [](\A i \in DOMAIN waited :
          StatusOf(i) = ready => waited[i] <= num_tasks - 2)
  /\ [][/\ (pc = "sched" /\ pc' # "sched") =>
            \A i \in DOMAIN tasks :
              (tasks[i].status = ready /\ i # current_task')
                => RingDistance(t, i) > RingDistance(t, current_task')
        /\ (pc = "app" /\ pc' = "sched") => t' = current_task]_vars

\* a ready task that has waited through num_tasks - 2 selections is the slot
\* under examination
ReadyNotPassedOverWitness ==
  /\ pc = "sched"
  /\ num_tasks = MaxCreate + 1
  /\ StatusOf(index) = ready
  /\ waited[index] = num_tasks - 2


\* schedule(t) is running and no slot can ever satisfy its condition: every
\* task has exited or waits for a task other than t
Stuck ==
  /\ pc = "sched"
  /\ \A i \in Allocated :
       \/ tasks[i].status = exited
       \/ tasks[i].status = blocked_on_join /\ tasks[i].join_thread # t

\* C17: schedule leaves its loop only with a selected task (the examined slot
\* satisfied its condition and is the one marked is_running), an iteration
\* that stays in the loop changes no task record and not current_task, and
\* once no task can become eligible schedule stays in its loop for good.
NoErrorExit ==
  [][/\ (pc = "sched" /\ pc' # "sched") =>
          (ExaminedHolds /\ current_task' = index /\ Running' = {index})
     /\ (pc = "sched" /\ pc' = "sched") =>
          (tasks' = tasks /\ current_task' = current_task /\ t' = t)
     /\ Stuck => Stuck']_vars

\* the last live task has exited while the main task waits for another one,
\* and the scan has come round to the caller again
NoErrorExitWitness ==
  /\ Stuck
  /\ index = t
  /\ tasks[t].status = exited
  /\ tasks[0].status = blocked_on_join
  /\ tasks[0].join_thread \in Allocated


\* C18: inside schedule no time passes between examining a slot other than
\* the caller's and examining the next one: the pause is taken only once a
\* full pass has come round to the caller.
PauseOnlyAfterFullPass ==
  [][(pc = "sched" /\ pc' = "sched" /\ index' # index /\ index # t)
       => clock' = clock]_vars


\* C19: whenever control is outside schedule after scheduler_init,
\* current_task is in 0..num_tasks-1 and tasks[current_task] is the only task
\* with status is_running; a blocking primitive or task_exit therefore takes
\* the task recorded as running out of is_running and yields on its behalf.
CurrentIsRunning ==
  /\ [](pc = "app" =>
          /\ current_task \in Allocated
          /\ tasks[current_task].status = is_running
          /\ \A i \in Allocated \ {current_task} : tasks[i].status # is_running)
  /\ [][(pc = "app" /\ pc' = "sched") =>
          /\ tasks[current_task].status = is_running
          /\ tasks'[current_task].status # is_running
          /\ t' = current_task
          /\ current_task' = current_task]_vars

\* task_readchar has returned to the last created task after a key arrived
CurrentIsRunningWitness ==
  /\ pc = "app"
  /\ call = "readchar"
  /\ via = blocked_on_input
  /\ current_task = MaxCreate
  /\ tasks[current_task].status = is_running


Blocked == {blocked_on_sleep, blocked_on_join, blocked_on_input}

\* the slots whose status this step changes
StatusChanged == {i \in DOMAIN tasks' : StatusOf(i) # tasks'[i].status}

\* the transitions C20 lists, for slot i
ListedTransition(i) ==
  \/ /\ StatusOf(i) = 0
     /\ tasks'[i].status = ready
     /\ pc = "app" /\ call' = "create" /\ i = handles'[Len(handles')]
  \/ /\ StatusOf(i) \in {ready} \cup Blocked
     /\ tasks'[i].status = is_running
     /\ pc = "sched" /\ i = index
  \/ /\ StatusOf(i) = is_running
     /\ tasks'[i].status \in Blocked \cup {exited}
     /\ pc = "app" /\ i = current_task

\* no task is ready again once it has left ready, and a schedule call changes
\* the status of the selected slot and of no other
SelectedOnly ==
  /\ \A i \in DOMAIN tasks : tasks'[i].status = ready => tasks[i].status = ready
  /\ pc = "sched" => StatusChanged = (IF pc' = "sched" THEN {} ELSE {current_task'})

\* C20 as stated: every status change is one of the listed transitions.
OnlyListedTransitions ==
  [][(\A i \in StatusChanged : ListedTransition(i)) /\ SelectedOnly]_vars

\* C20 amended: every status change is one of the listed transitions or
\* scheduler_init marking the main task, slot 0, is_running from its
\* zero-initialised status.
OnlyListedOrInit ==
  [][/\ \A i \in StatusChanged :
          \/ ListedTransition(i)
          \/ i = 0 /\ pc = "start" /\ StatusOf(0) = 0 /\ tasks'[0].status = is_running
     /\ SelectedOnly]_vars

\* the main task and task 1 have blocked in turn, and the last created task
\* has been selected and has exited
OnlyListedOrInitWitness ==
  /\ pc = "sched"
  /\ num_tasks = MaxCreate + 1
  /\ tasks[MaxCreate].status = exited
  /\ tasks[0].status \in Blocked
  /\ tasks[1].status \in Blocked
  /\ deadline[0] # NoTime

====
